---- MODULE Spec2Model ----
(***************************************************************************)
(* SplitCycle winner determination (splitcycle/core.py).                   *)
(*                                                                         *)
(* A numpy array is a record [shape, data]: shape is the tuple of its      *)
(* dimensions and data maps every index (0-based) to an entry.  A 2-D      *)
(* array is indexed data[i, j].  Entries are integers.                      *)
(***************************************************************************)
EXTENDS Integers, Sequences, FiniteSets, TLC

\* ------------------------------------------------------------------ bounds
MaxN == 3
MaxW == 2
MaxCores == 3
MaxBallots == 2

\* np.allclose: rtol = 1e-05 (its inverse), atol = 1e-08
RtolInv == 100000

VARIABLES
    margins,      \* argument `margins` of splitcycle
    candidates,   \* argument `candidates` of splitcycle: [given, list]
    dfs,          \* argument `dfs` of splitcycle / elect
    pc,           \* position of the splitcycle call
    cores,        \* os.cpu_count() as read by splitcycle
    work,         \* the list `work` of tuples handed to the pool
    result,       \* per task: [done, winners] as returned by the worker
    winners,      \* the value splitcycle returns
    ballots,      \* argument `ballots` of elect
    names,        \* argument `candidates` of elect
    epc,          \* position of the elect call
    elected,      \* the value elect returns
    bq,           \* the strong-path query [matrix, source, target, k]
    bst,          \* locals of has_strong_path: [sq, tq, s_visited, t_visited]
    bpc,          \* position inside has_strong_path
    bret          \* value returned by has_strong_path

vars == <<margins, candidates, dfs, pc, cores, work, result, winners,
          ballots, names, epc, elected, bq, bst, bpc, bret>>

callVars == <<margins, candidates, dfs, pc, cores, work, result, winners>>
electVars == <<ballots, names, epc, elected>>
bfsVars == <<bq, bst, bpc, bret>>

\* ----------------------------------------------------------------- helpers
Abs(x) == IF x < 0 THEN -x ELSE x

Range(s) == {s[i] : i \in 1..Len(s)}

Min(S) == CHOOSE x \in S : \A y \in S : x <= y

RECURSIVE sorted(_)

\* sorted(iterable): the ascending list of the elements of a set
sorted(S) ==
    IF S = {} THEN <<>>
    ELSE LET m == Min(S) IN <<m>> \o sorted(S \ {m})

\* range(n) as a list
range(n) == [i \in 1..n |-> i - 1]

Dim(matrix) == matrix.shape[1]

\* ------------------------------------------------------------- validation
is_square(matrix) ==
    Len(matrix.shape) = 2 /\ matrix.shape[1] = matrix.shape[2]

\* np.isclose(a, b) on integers: |a - b| <= atol + rtol * |b|
isclose(a, b) == Abs(a - b) <= Abs(b) \div RtolInv

has_reverse_diagonal_symmetry(matrix) ==
    is_square(matrix)
    /\ \A i, j \in 0..(Dim(matrix) - 1) :
          isclose(matrix.data[i, j], -matrix.data[j, i])

has_zero_diagonal(matrix) ==
    is_square(matrix)
    /\ \A i \in 0..(Dim(matrix) - 1) : isclose(matrix.data[i, i], 0)

is_margin_like(matrix) ==
    has_reverse_diagonal_symmetry(matrix) /\ has_zero_diagonal(matrix)

\* ------------------------------------------------------------ strong paths
\* locals of has_strong_path after lines 62-68
bfs_init(source, target) ==
    [sq |-> <<source>>, tq |-> <<target>>,
     s_visited |-> {source}, t_visited |-> {target}, found |-> FALSE]

RECURSIVE expand_forward(_, _, _, _, _), expand_backward(_, _, _, _, _),
          expand_backward_rows(_, _, _, _, _)

\* the loop of lines 76-82 from `neighbor` on; found = `return True`
expand_forward(matrix, k, cs, neighbor, st) ==
    IF neighbor >= Dim(matrix) THEN st
    ELSE IF matrix.data[cs, neighbor] >= k
         THEN IF neighbor \in st.t_visited
              THEN [st EXCEPT !.found = TRUE]
              ELSE IF neighbor \notin st.s_visited
                   THEN expand_forward(matrix, k, cs, neighbor + 1,
                            [st EXCEPT !.s_visited = @ \cup {neighbor},
                                       !.sq = Append(@, neighbor)])
                   ELSE expand_forward(matrix, k, cs, neighbor + 1, st)
         ELSE expand_forward(matrix, k, cs, neighbor + 1, st)

\* lines 74-82
bfs_forward(matrix, k, st) ==
    IF st.sq # <<>>
    THEN expand_forward(matrix, k, Head(st.sq), 0, [st EXCEPT !.sq = Tail(@)])
    ELSE st

expand_backward_rows(matrix, k, ct, neighbor, st) ==
    IF neighbor >= Dim(matrix) THEN st
    ELSE IF matrix.data[ct, neighbor] >= k
         THEN IF neighbor \in st.s_visited
              THEN [st EXCEPT !.found = TRUE]
              ELSE IF neighbor \notin st.t_visited
                   THEN expand_backward_rows(matrix, k, ct, neighbor + 1,
                            [st EXCEPT !.t_visited = @ \cup {neighbor},
                                       !.tq = Append(@, neighbor)])
                   ELSE expand_backward_rows(matrix, k, ct, neighbor + 1, st)
         ELSE expand_backward_rows(matrix, k, ct, neighbor + 1, st)

\* the loop of lines 86-92 from `neighbor` on
expand_backward(matrix, k, ct, neighbor, st) ==
    IF neighbor >= Dim(matrix) THEN st
    ELSE IF matrix.data[neighbor, ct] >= k
         THEN IF neighbor \in st.s_visited
              THEN [st EXCEPT !.found = TRUE]
              ELSE IF neighbor \notin st.t_visited
                   THEN expand_backward(matrix, k, ct, neighbor + 1,
                            [st EXCEPT !.t_visited = @ \cup {neighbor},
                                       !.tq = Append(@, neighbor)])
                   ELSE expand_backward(matrix, k, ct, neighbor + 1, st)
         ELSE expand_backward(matrix, k, ct, neighbor + 1, st)

\* lines 84-92
bfs_backward(matrix, k, st) ==
    IF st.tq # <<>>
    THEN expand_backward(matrix, k, Head(st.tq), 0, [st EXCEPT !.tq = Tail(@)])
    ELSE st

bfs_continue_gt1(st) == Len(st.sq) > 1 /\ Len(st.tq) > 1

\* the loop condition of line 73: `while sq and tq`
bfs_continue(st) == st.sq # <<>> /\ st.tq # <<>>

RECURSIVE bfs_loop(_, _, _)
\* lines 73-94
bfs_loop(matrix, k, st) ==
    IF bfs_continue(st)
    THEN LET f == bfs_forward(matrix, k, st) IN
         IF f.found THEN TRUE
         ELSE LET b == bfs_backward(matrix, k, f) IN
              IF b.found THEN TRUE ELSE bfs_loop(matrix, k, b)
    ELSE FALSE

has_strong_path(matrix, source, target, k) ==
    IF source = target THEN TRUE
    ELSE bfs_loop(matrix, k, bfs_init(source, target))

RECURSIVE dfs_node(_, _, _, _, _), dfs_neighbors(_, _, _, _, _, _)

\* dfs(node), lines 112-130, on the shared `visited`: [found, visited]
dfs_node(matrix, target, k, node, visited) ==
    IF node = target THEN [found |-> TRUE, visited |-> visited]
    ELSE dfs_neighbors(matrix, target, k, node, 0, visited \cup {node})

\* the loop of lines 125-128 from `neighbor` on
dfs_neighbors(matrix, target, k, node, neighbor, visited) ==
    IF neighbor >= Dim(matrix) THEN [found |-> FALSE, visited |-> visited]
    ELSE IF matrix.data[node, neighbor] >= k /\ neighbor \notin visited
         THEN LET r == dfs_node(matrix, target, k, neighbor, visited) IN
              IF r.found THEN r
              ELSE dfs_neighbors(matrix, target, k, node, neighbor + 1,
                                 r.visited)
         ELSE dfs_neighbors(matrix, target, k, node, neighbor + 1, visited)

has_strong_path_dfs(matrix, source, target, k) ==
    dfs_node(matrix, target, k, source, {}).found

\* line 136: finder = has_strong_path_dfs if dfs else has_strong_path
finder(use_dfs, matrix, source, target, k) ==
    IF use_dfs THEN has_strong_path_dfs(matrix, source, target, k)
    ELSE has_strong_path(matrix, source, target, k)

\* ------------------------------------------------------- defeat evaluation
RECURSIVE is_discarded(_, _, _, _, _), is_discarded_nopath(_, _, _, _, _)
is_discarded_nopath(all_candidates, idx, a, use_dfs, matrix) ==
    IF idx > Len(all_candidates) THEN FALSE
    ELSE LET b == all_candidates[idx] IN
         IF matrix.data[a, b] < 0 THEN TRUE
         ELSE is_discarded_nopath(all_candidates, idx + 1, a, use_dfs, matrix)

\* the loop of lines 160-165 from position idx of all_candidates on:
\* TRUE iff `winners.discard(a)` is reached
is_discarded(all_candidates, idx, a, use_dfs, matrix) ==
    IF idx > Len(all_candidates) THEN FALSE
    ELSE LET b == all_candidates[idx] IN
         IF matrix.data[a, b] < 0
            /\ ~finder(use_dfs, matrix, a, b, -matrix.data[a, b])
         THEN TRUE
         ELSE is_discarded(all_candidates, idx + 1, a, use_dfs, matrix)

is_splitcycle_winner_any(w) ==
    {a \in Range(w.considered_candidates) :
        \A i \in 1..Len(w.all_candidates) :
            LET b == w.all_candidates[i] IN
            ~(w.margins.data[a, b] < 0
              /\ ~finder(w.dfs, w.margins, a, b, 1))}

\* lines 134-167; w = [all_candidates, dfs, considered_candidates, margins]
is_splitcycle_winner(w) ==
    {a \in Range(w.considered_candidates) :
        ~is_discarded(w.all_candidates, 1, a, w.dfs, w.margins)}

\* ---------------------------------------------------------------- splitcycle
pool_sizes_floor(n, ncores) == [i \in 1..ncores |-> n \div ncores]

\* lines 220-225
pool_sizes(n, ncores) ==
    [i \in 1..ncores |->
        IF (i - 1) < n % ncores THEN (n \div ncores) + 1 ELSE n \div ncores]

RECURSIVE build_work(_, _, _, _, _, _), build_work_nostart(_, _, _, _, _, _)
build_work_nostart(cands, use_dfs, matrix, sizes, i, start) ==
    IF i > Len(sizes) THEN <<>>
    ELSE <<[all_candidates |-> cands,
            dfs |-> use_dfs,
            considered_candidates |-> [j \in 1..sizes[i] |-> start + j - 1],
            margins |-> matrix]>>
         \o build_work_nostart(cands, use_dfs, matrix, sizes, i + 1, start)

\* lines 228-232 from position i of pool_sizes on
build_work(cands, use_dfs, matrix, sizes, i, start) ==
    IF i > Len(sizes) THEN <<>>
    ELSE <<[all_candidates |-> cands,
            dfs |-> use_dfs,
            considered_candidates |-> [j \in 1..sizes[i] |-> start + j - 1],
            margins |-> matrix]>>
         \o build_work(cands, use_dfs, matrix, sizes, i + 1, start + sizes[i])

\* line 216
default_candidates(n, cand) == IF cand.given THEN cand.list ELSE range(n)

\* lines 213-232
make_work(matrix, cand, use_dfs, ncores) ==
    LET n == Dim(matrix) IN
    build_work(default_candidates(n, cand), use_dfs, matrix,
               pool_sizes(n, ncores), 1, 0)

\* lines 239-241 on the list `result` of the workers' sets
gather(res) == sorted(UNION {res[i] : i \in 1..Len(res)})

\* lines 213-241 with every worker run to completion
splitcycle(matrix, cand, use_dfs, ncores) ==
    LET w == make_work(matrix, cand, use_dfs, ncores) IN
    gather([i \in 1..Len(w) |-> is_splitcycle_winner(w[i])])

\* ---------------------------------------------------------------- ballots
sign_contribution_flipped(comp) == IF comp > 0 THEN 1 ELSE IF comp < 0 THEN -1 ELSE 0

\* line 256: np.where(comp < 0, 1, np.where(comp > 0, -1, 0))
sign_contribution(comp) == IF comp < 0 THEN 1 ELSE IF comp > 0 THEN -1 ELSE 0

RECURSIVE accumulate_ballots(_, _, _)
\* lines 253-256 from ballot row r on; acc is `margins`
accumulate_ballots(b, r, acc) ==
    IF r >= b.shape[1] THEN acc
    ELSE accumulate_ballots(b, r + 1,
            [ij \in DOMAIN acc |->
                acc[ij] + sign_contribution(b.data[r, ij[1]] - b.data[r, ij[2]])])

\* lines 250-258
margins_from_ballots(b) ==
    LET n_candidates == b.shape[2] IN
    [shape |-> <<n_candidates, n_candidates>>,
     data |-> accumulate_ballots(b, 0,
                 [ij \in (0..(n_candidates - 1)) \X (0..(n_candidates - 1)) |-> 0])]

\* line 303
map_names(cands, winner_indices) ==
    [i \in 1..Len(winner_indices) |-> cands[winner_indices[i] + 1]]

\* ------------------------------------------------------------------ inputs
Weights == (-MaxW)..MaxW

Pairs(n) == {ij \in (0..(n - 1)) \X (0..(n - 1)) : ij[1] < ij[2]}

\* the antisymmetric zero-diagonal n x n matrix with upper triangle u
Antisymmetric(n, u) ==
    [shape |-> <<n, n>>,
     data |-> [ij \in (0..(n - 1)) \X (0..(n - 1)) |->
                  IF ij[1] < ij[2] THEN u[ij]
                  ELSE IF ij[1] > ij[2] THEN -u[<<ij[2], ij[1]>>] ELSE 0]]

ValidMargins(n) == {Antisymmetric(n, u) : u \in [Pairs(n) -> Weights]}

SignMargins(n) == {Antisymmetric(n, u) : u \in [Pairs(n) -> -1..1]}

\* a margin matrix of an electorate s times as large, one entry off by d
NearMargins(n) ==
    UNION {{[m EXCEPT !.data = [ij \in DOMAIN m.data |->
                                IF ij = e THEN s * m.data[ij] + d
                                ELSE s * m.data[ij]]] :
              s \in {1, RtolInv}, d \in {-1, 1}, e \in DOMAIN m.data} :
           m \in SignMargins(n)}

\* every directed graph on n nodes as a 0/1 matrix
Adjacency(n) ==
    {[shape |-> <<n, n>>, data |-> f] :
        f \in [(0..(n - 1)) \X (0..(n - 1)) -> {0, 1}]}

\* the n x c arrays of zeros with c # n
NonSquare(n) ==
    {[shape |-> <<n, c>>, data |-> [ij \in (0..(n - 1)) \X (0..(c - 1)) |-> 0]] :
        c \in (1..MaxN) \ {n}}

\* the 1-dimensional and the 3-dimensional array of zeros
Not2D(n) ==
    {[shape |-> <<n>>, data |-> [i \in 0..(n - 1) |-> 0]],
     [shape |-> <<n, n, n>>,
      data |-> [ijk \in (0..(n - 1)) \X (0..(n - 1)) \X (0..(n - 1)) |-> 0]]}

MarginInputs(n) ==
    ValidMargins(n) \cup NearMargins(n) \cup Adjacency(n)
        \cup NonSquare(n) \cup Not2D(n)

None == [given |-> FALSE, list |-> <<>>]

\* `candidates`: None, or an explicit list of indices of the matrix (ascending,
\* without duplicates)
CandidateInputs(m) ==
    {None} \cup
    (IF is_square(m)
     THEN {[given |-> TRUE, list |-> sorted(C)] : C \in SUBSET (0..(Dim(m) - 1))}
     ELSE {})

Thresholds == 0..(MaxW + 1)

Queries(n) ==
    {[matrix |-> m, source |-> s, target |-> t, k |-> k] :
        m \in ValidMargins(n) \cup Adjacency(n),
        s \in 0..(n - 1), t \in 0..(n - 1), k \in Thresholds}

NoMargins == [shape |-> <<0, 0>>, data |-> <<>>]

NoQuery == [matrix |-> NoMargins, source |-> 0, target |-> 0, k |-> 0]

NoBallots == [shape |-> <<0, 0>>, data |-> <<>>]

\* m ballots ranking n candidates with the ranks 1..n, ties allowed
BallotInputs(m, n) ==
    {[shape |-> <<m, n>>, data |-> f] :
        f \in [(0..(m - 1)) \X (0..(n - 1)) -> 1..n]}

Injective(s) == \A i, j \in 1..Len(s) : i # j => s[i] # s[j]

\* l distinct names
NameInputs(l) == {s \in [1..l -> 1..MaxN] : Injective(s)}

\* --------------------------------------------------------- splitcycle call
\* no elect call in progress
IdleElect ==
    /\ ballots = NoBallots /\ names = <<>> /\ epc = "idle" /\ elected = <<>>

\* no stepwise strong-path query in progress
IdleBfs ==
    /\ bq = NoQuery /\ bst = bfs_init(0, 0) /\ bpc = "idle" /\ bret = "none"

\* locals of splitcycle before line 213
IdleCall ==
    /\ cores = 0 /\ work = <<>> /\ result = <<>> /\ winners = <<>>

Init ==
    /\ \E n \in 0..MaxN : margins \in MarginInputs(n)
    /\ candidates \in CandidateInputs(margins)
    /\ dfs \in BOOLEAN
    /\ pc = "call"
    /\ IdleCall /\ IdleElect /\ IdleBfs

\* lines 191-211
Validate ==
    /\ pc = "call"
    /\ pc' = IF is_margin_like(margins) THEN "validated" ELSE "raised"
    /\ UNCHANGED <<margins, candidates, dfs, cores, work, result, winners>>
    /\ UNCHANGED <<electVars, bfsVars>>

\* lines 213-232 and the pool of line 235
Partition ==
    /\ pc = "validated"
    /\ \E c \in 1..MaxCores :
          /\ cores' = c
          /\ work' = make_work(margins, candidates, dfs, c)
          /\ result' = [i \in 1..c |-> [done |-> FALSE, winners |-> {}]]
    /\ pc' = "running"
    /\ UNCHANGED <<margins, candidates, dfs, winners>>
    /\ UNCHANGED <<electVars, bfsVars>>

\* line 236: one worker finishes is_splitcycle_winner(work[i])
Task(i) ==
    /\ pc = "running"
    /\ ~result[i].done
    /\ result' = [result EXCEPT
                    ![i] = [done |-> TRUE, winners |-> is_splitcycle_winner(work[i])]]
    /\ UNCHANGED <<margins, candidates, dfs, pc, cores, work, winners>>
    /\ UNCHANGED <<electVars, bfsVars>>

\* lines 236-241: map returns once every task is done
Gather ==
    /\ pc = "running"
    /\ \A i \in 1..Len(result) : result[i].done
    /\ winners' = gather([i \in 1..Len(result) |-> result[i].winners])
    /\ pc' = "done"
    /\ UNCHANGED <<margins, candidates, dfs, cores, work, result>>
    /\ UNCHANGED <<electVars, bfsVars>>

Next ==
    \/ Validate
    \/ Partition
    \/ \E i \in 1..MaxCores : i <= Len(result) /\ Task(i)
    \/ Gather

Spec == Init /\ [][Next]_vars

\* ------------------------------------------------------------- elect call
\* errors.not_enough_candidates(): the candidate count mismatch failure
not_enough_candidates == "raised"

InitElect ==
    /\ \E m \in 0..MaxBallots : \E n \in 1..MaxN : ballots \in BallotInputs(m, n)
    /\ \E l \in 1..MaxN : names \in NameInputs(l)
    /\ dfs \in BOOLEAN
    /\ epc = "call"
    /\ elected = <<>>
    /\ margins = NoMargins
    /\ candidates = None
    /\ pc = "idle"
    /\ IdleCall /\ IdleBfs

\* lines 295-296
ElectCheck ==
    /\ epc = "call"
    /\ epc' = IF ballots.shape[2] # Len(names)
              THEN not_enough_candidates ELSE "checked"
    /\ UNCHANGED <<ballots, names, elected, callVars, bfsVars>>

\* line 299
ElectMargins ==
    /\ epc = "checked"
    /\ margins' = margins_from_ballots(ballots)
    /\ epc' = "margins"
    /\ UNCHANGED <<ballots, names, elected, bfsVars>>
    /\ UNCHANGED <<candidates, dfs, pc, cores, work, result, winners>>

\* line 300: the whole splitcycle(margins, dfs=dfs) call
ElectSplitcycle ==
    /\ epc = "margins"
    /\ \E c \in 1..MaxCores :
          /\ cores' = c
          /\ IF is_margin_like(margins)
             THEN /\ winners' = splitcycle(margins, None, dfs, c)
                  /\ epc' = "winners"
             ELSE /\ winners' = winners
                  /\ epc' = "raised"
    /\ UNCHANGED <<ballots, names, elected, bfsVars>>
    /\ UNCHANGED <<margins, candidates, dfs, pc, work, result>>

\* line 303
ElectMap ==
    /\ epc = "winners"
    /\ elected' = map_names(names, winners)
    /\ epc' = "done"
    /\ UNCHANGED <<ballots, names, callVars, bfsVars>>

NextElect == ElectCheck \/ ElectMargins \/ ElectSplitcycle \/ ElectMap

SpecElect == InitElect /\ [][NextElect]_vars

\* ----------------------------------------------- has_strong_path, stepwise
InitBFS ==
    /\ \E n \in 1..MaxN : bq \in Queries(n)
    /\ bst = bfs_init(0, 0)
    /\ bpc = "call"
    /\ bret = "none"
    /\ margins = NoMargins
    /\ candidates = None
    /\ dfs = FALSE
    /\ pc = "idle"
    /\ IdleCall /\ IdleElect

\* lines 58-71
BfsStart ==
    /\ bpc = "call"
    /\ IF bq.source = bq.target
       THEN /\ bret' = "True" /\ bpc' = "returned" /\ bst' = bst
       ELSE /\ bst' = bfs_init(bq.source, bq.target)
            /\ bpc' = "while" /\ bret' = bret
    /\ UNCHANGED <<bq, callVars, electVars>>

\* line 73, and line 94 when the loop ends
BfsWhile ==
    /\ bpc = "while"
    /\ IF bfs_continue(bst)
       THEN /\ bpc' = "forward" /\ bret' = bret
       ELSE /\ bpc' = "returned" /\ bret' = "False"
    /\ UNCHANGED <<bq, bst, callVars, electVars>>

\* lines 74-82
BfsForward ==
    /\ bpc = "forward"
    /\ bst' = bfs_forward(bq.matrix, bq.k, bst)
    /\ IF bst'.found
       THEN /\ bpc' = "returned" /\ bret' = "True"
       ELSE /\ bpc' = "backward" /\ bret' = bret
    /\ UNCHANGED <<bq, callVars, electVars>>

\* lines 84-92
BfsBackward ==
    /\ bpc = "backward"
    /\ bst' = bfs_backward(bq.matrix, bq.k, bst)
    /\ IF bst'.found
       THEN /\ bpc' = "returned" /\ bret' = "True"
       ELSE /\ bpc' = "while" /\ bret' = bret
    /\ UNCHANGED <<bq, callVars, electVars>>

NextBFS == BfsStart \/ BfsWhile \/ BfsForward \/ BfsBackward

SpecBFS == InitBFS /\ [][NextBFS]_vars

\* ------------------------------------------------- the SplitCycle rule
\* exactly antisymmetric with a zero diagonal
Valid(m) ==
    /\ is_square(m)
    /\ \A i, j \in 0..(Dim(m) - 1) : m.data[i, j] = -m.data[j, i]
    /\ \A i \in 0..(Dim(m) - 1) : m.data[i, i] = 0

Malformed(m) ==
    \/ Len(m.shape) # 2
    \/ m.shape[1] # m.shape[2]
    \/ \E i, j \in 0..(Dim(m) - 1) : m.data[i, j] # -m.data[j, i]
    \/ \E i \in 0..(Dim(m) - 1) : m.data[i, i] # 0

RECURSIVE Closure(_, _, _)
\* the nodes reachable from S over edges (u, v) with m[u, v] >= k
Closure(m, k, S) ==
    LET T == S \cup {v \in 0..(Dim(m) - 1) : \E u \in S : m.data[u, v] >= k}
    IN IF T = S THEN S ELSE Closure(m, k, T)

PathExists(m, a, b, k) == b \in Closure(m, k, {a})

ConclusiveDefeat(m, a, b) ==
    m.data[a, b] < 0 /\ ~PathExists(m, a, b, -m.data[a, b])

Undefeated(m, A, B) == {a \in A : ~\E b \in B : ConclusiveDefeat(m, a, b)}

Indices(m) == 0..(Dim(m) - 1)

Ascending(s) == \A i \in 1..(Len(s) - 1) : s[i] < s[i + 1]

Condorcet(m, w) == \A x \in Indices(m) \ {w} : m.data[w, x] > 0

DefaultDone == pc = "done" /\ Valid(margins) /\ ~candidates.given

\* C1: with the default candidates, splitcycle returns the ascending,
\* duplicate-free list of exactly the indices a that have no b with
\* margins[a, b] < 0 and no path from a to b over edges >= -margins[a, b].
C1_Winners ==
    DefaultDone =>
        /\ Ascending(winners)
        /\ Range(winners) = Undefeated(margins, Indices(margins), Indices(margins))

C1_Witness ==
    /\ DefaultDone
    /\ \E a \in Range(winners) : \E b \in Indices(margins) : margins.data[a, b] < 0
    /\ Range(winners) # Indices(margins)

\* C2: the breadth-first and the depth-first search return the same boolean
\* for every square matrix, source, target and threshold, and splitcycle
\* returns the same winner list with dfs=True and dfs=False.
C2_Equivalent ==
    /\ (pc = "call" /\ is_square(margins)) =>
          \A s, t \in Indices(margins) : \A k \in (-(MaxW + 1))..(MaxW + 1) :
              has_strong_path(margins, s, t, k)
                  = has_strong_path_dfs(margins, s, t, k)
    /\ (pc = "done" /\ Valid(margins)) =>
          winners = splitcycle(margins, candidates, ~dfs, cores)

C2_Witness ==
    /\ DefaultDone /\ ~dfs
    /\ \E a \in Range(winners) : \E b \in Indices(margins) : margins.data[a, b] < 0
    /\ Range(winners) # Indices(margins)
    /\ \E a, b \in Indices(margins) :
          /\ a # b
          /\ has_strong_path(margins, a, b, MaxW)
          /\ ~has_strong_path(margins, b, a, MaxW)

\* C3: the P partitions are contiguous, disjoint, cover 0..n-1 and have
\* sizes floor(n/P)+1 (the first n mod P) and floor(n/P) (the rest); the union
\* of the tasks' results is the winner set of one pass over all candidates,
\* whatever the order in which the tasks complete.
C3_Partition ==
    /\ (pc \in {"running", "done"} /\ Valid(margins) /\ ~candidates.given) =>
          LET n == Dim(margins) IN
          /\ Len(work) = cores
          /\ \A i \in 1..cores :
                /\ Len(work[i].considered_candidates) =
                      (IF i <= n % cores THEN (n \div cores) + 1 ELSE n \div cores)
                /\ Ascending(work[i].considered_candidates)
                /\ \A j \in 1..cores : i < j =>
                      \A x \in Range(work[i].considered_candidates) :
                      \A y \in Range(work[j].considered_candidates) : x < y
          /\ UNION {Range(work[i].considered_candidates) : i \in 1..cores}
                = Indices(margins)
    /\ DefaultDone =>
          winners = sorted(is_splitcycle_winner(
                        [all_candidates |-> range(Dim(margins)), dfs |-> dfs,
                         considered_candidates |-> range(Dim(margins)),
                         margins |-> margins]))

C3_Witness ==
    /\ DefaultDone
    /\ cores >= 2 /\ Dim(margins) > cores /\ Dim(margins) % cores # 0
    /\ \E i, j \in 1..cores :
          i # j /\ result[i].winners # {} /\ result[j].winners # {}
    /\ Range(winners) # Indices(margins)

\* C4: with an explicit candidates subset C the result is exactly the
\* indices a of C with no conclusive defeat by any b in 0..n-1, and holds no
\* index outside C.
C4_SubsetOriginal ==
    (pc = "done" /\ Valid(margins) /\ candidates.given) =>
        Range(winners) =
            Undefeated(margins, Range(candidates.list), Indices(margins))

\* C6: a Condorcet winner is in the winner list, for both search variants and
\* every partitioning.
C6_Condorcet ==
    DefaultDone =>
        \A w \in Indices(margins) : Condorcet(margins, w) => w \in Range(winners)

C6_Witness ==
    /\ DefaultDone /\ ~dfs /\ cores >= 2
    /\ Dim(margins) = MaxN
    /\ \E w \in Indices(margins) :
          w # 0 /\ Condorcet(margins, w) /\ winners = <<w>>

\* C8: a matrix that is not 2-dimensional, not square, not antisymmetric or
\* has a non-zero diagonal entry ends the call in the malformed-margins error
\* before any partition, task or search, and no winner list is returned.
C8_MalformedOriginal ==
    Malformed(margins) =>
        /\ pc \in {"call", "raised"}
        /\ work = <<>> /\ result = <<>> /\ winners = <<>>

\* C10: with n >= 1 candidates and the default candidates the winner list of
\* a valid margin matrix is never empty.
C10_NonEmpty ==
    (DefaultDone /\ Dim(margins) >= 1) => winners # <<>>

C10_Witness ==
    /\ DefaultDone
    /\ Dim(margins) = MaxN
    /\ \A a \in Indices(margins) : \E b \in Indices(margins) : margins.data[a, b] < 0
    /\ Len(winners) = 1

\* C5: margins_from_ballots returns the n x n matrix of (ballots ranking i
\* strictly better than j) minus (ballots ranking i strictly worse than j);
\* it is antisymmetric with a zero diagonal and passes is_margin_like.
C5_Margins ==
    (epc \in {"margins", "winners", "done"}) =>
        LET n == ballots.shape[2]
            rows == 0..(ballots.shape[1] - 1)
        IN /\ margins.shape = <<n, n>>
           /\ \A i, j \in 0..(n - 1) :
                 margins.data[i, j] =
                     Cardinality({r \in rows : ballots.data[r, i] < ballots.data[r, j]})
                     - Cardinality({r \in rows : ballots.data[r, i] > ballots.data[r, j]})
           /\ Valid(margins)
           /\ is_margin_like(margins)

C5_Witness ==
    /\ epc = "margins"
    /\ ballots.shape = <<MaxBallots, MaxN>>
    /\ \E i, j \in Indices(margins) : margins.data[i, j] = MaxBallots
    /\ \E i, j \in Indices(margins) : i # j /\ margins.data[i, j] = 0
    /\ \E r \in 0..(MaxBallots - 1) : \E i, j \in Indices(margins) :
          i # j /\ ballots.data[r, i] = ballots.data[r, j]

\* C7: elect returns the names candidate_names[i] of the winner indices i,
\* in ascending order of the names, whatever the order of candidate_names.
C7_SortedNamesOriginal ==
    (epc = "done") =>
        /\ Ascending(elected)
        /\ Range(elected) = {names[i + 1] : i \in Range(winners)}

\* C9 (amended): for source != target the breadth-first search returns False
\* only once the forward queue or the backward queue is exhausted without a
\* meeting, and then no strong path exists; it never returns False while
\* both queues still hold a node.
C9_EitherExhausted ==
    (bpc = "returned" /\ bret = "False") =>
        /\ bq.source # bq.target
        /\ bst.sq = <<>> \/ bst.tq = <<>>
        /\ ~PathExists(bq.matrix, bq.source, bq.target, bq.k)

C9_Witness ==
    /\ bpc = "returned" /\ bret = "False"
    /\ bst.sq = <<>> /\ bst.tq # <<>>
    /\ Cardinality(bst.t_visited) > 1

\* C9 as stated: False is returned only when both queues are exhausted.
C9_BothExhaustedOriginal ==
    (bpc = "returned" /\ bret = "False") =>
        (bst.sq = <<>> /\ bst.tq = <<>>)

====
